---- MODULE Spec2Model ----
(***************************************************************************)
(* A model of the connection pools of gotoolkits/rpool.                     *)
(*                                                                         *)
(* The repository holds three near-duplicate pools:                        *)
(*   kind = "mutex"  : ConnPool with an embedded sync.Mutex                *)
(*                     (src/tcp_connpool/pool.go, lines 166-320):          *)
(*                     Get / Release / CloseClean / Destroy;               *)
(*   kind = "global" : ConnPool under the package lock m                   *)
(*                     (src/conn_pool/pool.go): Get / Close / Destroy;     *)
(*   kind = "tcp"    : TcpConnPool under the package lock m                *)
(*                     (src/tcp_connpool/pool.go, lines 1-164):            *)
(*                     Get / Close / Destroy.                              *)
(*                                                                         *)
(* One pool instance is used either by NumCallers concurrent callers, who  *)
(* make up to MaxCalls calls in all, or by caller 1 alone (the others are  *)
(* "off"), who makes up to MaxSeqCalls calls one after another.  A step of *)
(* the model is one critical section (Lock ... Unlock, or Lock up to the   *)
(* call of New / open / Ping made under the lock), or the return of a New, *)
(* open or Ping call.  A step that takes the lock waits for lock = Free.   *)
(* Handles are numbered from 1 in the order the Factory creates them; Nil  *)
(* is Go's nil.  Callers may pass any handle a Get has returned to Release /  *)
(* Close / CloseClean (the pool cannot tell whose it is); "misuse" records *)
(* whether some call passed a handle its caller did not hold.  Release of  *)
(* the mutex pool is called with non-nil handles only.  The callers are    *)
(* alike and are numbered in the order of their first calls.  One more     *)
(* goroutine calls Get on a second pool instance of the same type, which   *)
(* shares nothing with this one but, for the two package-lock pools, the   *)
(* lock m.                                                                 *)
(***************************************************************************)
EXTENDS Integers, Sequences, FiniteSets, TLC

\* ------------------------------------------------------------------ bounds
NumCallers == 2
MaxCalls == 3
MaxSeqCalls == 5
MaxCfgConns == 2
MaxCfgIdle == 2

Callers == 1..NumCallers
\* the goroutine that uses the second pool instance
Other == NumCallers + 1
Nil == 0
Free == 0

Kinds == {"mutex", "global", "tcp"}

\* MAX_CONN_ERROR, the text of ErrMaxConn
ErrMaxConn == "Maximum connections reached"
\* a nil error
NoErr == "nil"
\* the call has not returned yet
Pending == "pending"

VARIABLES
    kind,       \* which of the three pool types this instance is
    maxConns,   \* MaxConns / max_conns
    maxIdle,    \* MaxIdle / max_idle
    conns,      \* the counter
    free,       \* the free list
    lock,       \* holder of the pool's lock (Free when unlocked)
    pc,         \* each caller's position
    conn,       \* each caller's conn (Get's candidate, CloseClean's argument)
    new_conn,   \* Get's local new_conn
    rec,        \* each caller's current or last call: its operation, argument,
                \* what it returned and what Get did on the way; tick flips
                \* whenever the caller starts a call
    held,       \* handles each caller got from Get and has not given back
    closed,     \* handles on which Close() was called
    nextH,      \* next handle the Factory creates
    issued,     \* handles some Get has returned to a caller
    misuse,     \* some call passed a handle its caller did not hold
    calls,      \* number of calls started so far
    destroyed,  \* Destroy has returned
    pc2         \* position of the goroutine that uses a second pool instance
                \* of the same type

vars == <<kind, maxConns, maxIdle, conns, free, lock, pc, conn, new_conn,
          rec, held, closed, nextH, issued, misuse, calls,
          destroyed, pc2>>

NewRec(t, op, a) ==
    [tick |-> t, op |-> op, arg |-> a, conn |-> Nil, err |-> Pending,
     calledNew |-> FALSE, newErr |-> NoErr, calledPing |-> FALSE,
     pinged |-> Nil, tracked |-> FALSE, late |-> FALSE]

SeqRange(s) == {s[i] : i \in 1..Len(s)}

\* NewConnPool / NewTcpConnPool: conns = 0, free = nil
Init ==
    /\ kind \in Kinds
    /\ maxConns \in 1..MaxCfgConns
    /\ maxIdle \in 0..MaxCfgIdle
    /\ conns = 0
    /\ free = <<>>
    /\ lock = Free
    /\ \/ pc = [c \in Callers |-> "idle"]
       \/ pc = [c \in Callers |-> IF c = 1 THEN "idle" ELSE "off"]
    /\ conn = [c \in Callers |-> Nil]
    /\ new_conn = [c \in Callers |-> FALSE]
    /\ rec = [c \in Callers |-> NewRec(0, "none", Nil)]
    /\ held = [c \in Callers |-> {}]
    /\ closed = {}
    /\ nextH = 1
    /\ issued = {}
    /\ misuse = FALSE
    /\ calls = 0
    /\ destroyed = FALSE
    /\ pc2 = "idle"

\* the number of calls the callers make in all
Budget == IF \A c \in Callers \ {1} : pc[c] = "off" THEN MaxSeqCalls ELSE MaxCalls

\* caller c starts a call of op with argument a; the callers, which are
\* alike, are numbered in the order of their first calls
Call(c, op, a) ==
    /\ pc[c] = "idle"
    /\ \A d \in Callers : d < c => rec[d].op # "none"
    /\ calls < Budget
    /\ calls' = calls + 1

\* the record of the call that Call(c, op, a) starts: tracked says whether a
\* caller holds the argument or the free list has it, late whether Destroy
\* has returned before
Started(c, op, a) ==
    [NewRec(1 - rec[c].tick, op, a) EXCEPT
        !.tracked = a \in (UNION {held[d] : d \in Callers}) \cup SeqRange(free),
        !.late = destroyed]

\* the call returns (h, e) to caller c; r is the call's record so far
Return(c, r, h, e) ==
    /\ pc' = [pc EXCEPT ![c] = "idle"]
    /\ issued' = IF h # Nil THEN issued \cup {h} ELSE issued
    /\ rec' = [rec EXCEPT ![c] = [r EXCEPT !.conn = h, !.err = e]]
    /\ conn' = [conn EXCEPT ![c] = Nil]
    /\ new_conn' = [new_conn EXCEPT ![c] = FALSE]

\* the caller gives handle h to the pool (or discards it)
GiveUp(c, h) ==
    /\ held' = [held EXCEPT ![c] = @ \ {h}]
    /\ misuse' = (misuse \/ h \notin held[c])

\* ---------------------------------------------------------------------
\* kind = "mutex": ConnPool with its own sync.Mutex
\* (src/tcp_connpool/pool.go, lines 166-320)
\* ---------------------------------------------------------------------

\* what p.New() can return: a new handle (NoErr) or an error
NewOutcomes == {NoErr, "ErrNew"}

\* Mutant of Get: the capacity check compares with > instead of >=.
Get_StrictCheck(c) ==
    /\ kind = "mutex"
    /\ Call(c, "Get", Nil)
    /\ lock = Free
    /\ IF conns > maxConns /\ Len(free) = 0
       THEN /\ Return(c, Started(c, "Get", Nil), Nil, ErrMaxConn)
            /\ UNCHANGED <<lock, free>>
       ELSE IF Len(free) > 0
       THEN /\ conn' = [conn EXCEPT ![c] = Head(free)]
            /\ free' = Tail(free)
            /\ new_conn' = [new_conn EXCEPT ![c] = FALSE]
            /\ pc' = [pc EXCEPT ![c] = "g_ping"]
            /\ rec' = [rec EXCEPT ![c] = Started(c, "Get", Nil)]
            /\ UNCHANGED issued
            /\ UNCHANGED lock
       ELSE /\ lock' = c
            /\ pc' = [pc EXCEPT ![c] = "g_new"]
            /\ rec' = [rec EXCEPT ![c] = Started(c, "Get", Nil)]
            /\ UNCHANGED issued
            /\ UNCHANGED <<free, conn, new_conn>>
    /\ UNCHANGED <<pc2, destroyed, kind, maxConns, maxIdle, conns, held, closed, nextH, misuse>>

\* Get, lines 229-249: the first critical section, up to the return of
\* ErrMaxConn, the pop and Unlock, or the call of p.New() under the lock
Get(c) ==
    /\ kind = "mutex"
    /\ Call(c, "Get", Nil)
    /\ lock = Free
    /\ IF conns >= maxConns /\ Len(free) = 0
       THEN /\ Return(c, Started(c, "Get", Nil), Nil, ErrMaxConn)
            /\ UNCHANGED <<lock, free>>
       ELSE IF Len(free) > 0
       THEN /\ conn' = [conn EXCEPT ![c] = Head(free)]
            /\ free' = Tail(free)
            /\ new_conn' = [new_conn EXCEPT ![c] = FALSE]
            /\ pc' = [pc EXCEPT ![c] = "g_ping"]
            /\ rec' = [rec EXCEPT ![c] = Started(c, "Get", Nil)]
            /\ UNCHANGED issued
            /\ UNCHANGED lock
       ELSE /\ lock' = c
            /\ pc' = [pc EXCEPT ![c] = "g_new"]
            /\ rec' = [rec EXCEPT ![c] = Started(c, "Get", Nil)]
            /\ UNCHANGED issued
            /\ UNCHANGED <<free, conn, new_conn>>
    /\ UNCHANGED <<pc2, destroyed, kind, maxConns, maxIdle, conns, held, closed, nextH, misuse>>

\* Mutant of GetNew: a failed p.New() is counted as a connection.
GetNew_CountsAttempt(c) ==
    /\ kind = "mutex"
    /\ pc[c] = "g_new"
    /\ \E r \in NewOutcomes :
         IF r = NoErr
         THEN /\ conn' = [conn EXCEPT ![c] = nextH]
              /\ nextH' = nextH + 1
              /\ new_conn' = [new_conn EXCEPT ![c] = TRUE]
              /\ pc' = [pc EXCEPT ![c] = "g_ping"]
              /\ rec' = [rec EXCEPT ![c].calledNew = TRUE]
              /\ UNCHANGED issued
              /\ lock' = Free
         ELSE /\ Return(c, [rec[c] EXCEPT !.calledNew = TRUE, !.newErr = r],
                        Nil, r)
              /\ lock' = Free
              /\ UNCHANGED nextH
    /\ conns' = IF conn'[c] = Nil THEN conns + 1 ELSE conns
    /\ UNCHANGED <<pc2, destroyed, calls, kind, maxConns, maxIdle, free, held, closed,
                   misuse>>

\* Get, lines 242-249: p.New() returns (the lock was held while it ran)
GetNew(c) ==
    /\ kind = "mutex"
    /\ pc[c] = "g_new"
    /\ \E r \in NewOutcomes :
         IF r = NoErr
         THEN /\ conn' = [conn EXCEPT ![c] = nextH]
              /\ nextH' = nextH + 1
              /\ new_conn' = [new_conn EXCEPT ![c] = TRUE]
              /\ pc' = [pc EXCEPT ![c] = "g_ping"]
              /\ rec' = [rec EXCEPT ![c].calledNew = TRUE]
              /\ UNCHANGED issued
              /\ lock' = Free
         ELSE /\ Return(c, [rec[c] EXCEPT !.calledNew = TRUE, !.newErr = r],
                        Nil, r)
              /\ lock' = Free
              /\ UNCHANGED nextH
    /\ UNCHANGED <<pc2, destroyed, calls, kind, maxConns, maxIdle, conns, free, held, closed,
                   misuse>>

\* Mutant of GetPing: a popped candidate is returned although Ping failed.
GetPing_IgnoresError(c) ==
    /\ kind = "mutex"
    /\ pc[c] = "g_ping"
    /\ \E ok \in BOOLEAN :
         IF ok
         THEN IF new_conn[c]
              THEN /\ pc' = [pc EXCEPT ![c] = "g_inc"]
                   /\ rec' = [rec EXCEPT ![c].calledPing = TRUE,
                                         ![c].pinged = conn[c]]
                   /\ UNCHANGED <<conn, new_conn, held, issued>>
              ELSE /\ Return(c, [rec[c] EXCEPT !.calledPing = TRUE,
                                               !.pinged = conn[c]],
                             conn[c], NoErr)
                   /\ held' = [held EXCEPT ![c] = @ \cup {conn[c]}]
         ELSE IF new_conn[c]
              THEN /\ pc' = [pc EXCEPT ![c] = "g_fail"]
                   /\ rec' = [rec EXCEPT ![c].calledPing = TRUE]
                   /\ UNCHANGED <<conn, new_conn, held, issued>>
              ELSE /\ Return(c, [rec[c] EXCEPT !.calledPing = TRUE],
                             conn[c], NoErr)
                   /\ held' = [held EXCEPT ![c] = @ \cup {conn[c]}]
    /\ UNCHANGED <<pc2, destroyed, calls, kind, maxConns, maxIdle, conns, free, lock, closed,
                   nextH, misuse>>

\* Get, lines 251-252 and 262, 267-271: p.Ping(conn) returns (no lock held)
GetPing(c) ==
    /\ kind = "mutex"
    /\ pc[c] = "g_ping"
    /\ \E ok \in BOOLEAN :
         IF ok
         THEN IF new_conn[c]
              THEN /\ pc' = [pc EXCEPT ![c] = "g_inc"]
                   /\ rec' = [rec EXCEPT ![c].calledPing = TRUE,
                                         ![c].pinged = conn[c]]
                   /\ UNCHANGED <<conn, new_conn, held, issued>>
              ELSE /\ Return(c, [rec[c] EXCEPT !.calledPing = TRUE,
                                               !.pinged = conn[c]],
                             conn[c], NoErr)
                   /\ held' = [held EXCEPT ![c] = @ \cup {conn[c]}]
         ELSE /\ pc' = [pc EXCEPT ![c] = "g_fail"]
              /\ rec' = [rec EXCEPT ![c].calledPing = TRUE]
              /\ UNCHANGED <<conn, new_conn, held, issued>>
    /\ UNCHANGED <<pc2, destroyed, calls, kind, maxConns, maxIdle, conns, free, lock, closed,
                   nextH, misuse>>

\* Mutant of GetFail: the counter is rolled back for a newly created candidate too.
GetFail_AlwaysDec(c) ==
    /\ kind = "mutex"
    /\ pc[c] = "g_fail"
    /\ lock = Free
    /\ conns' = IF conns > 0 THEN conns - 1 ELSE conns
    /\ closed' = closed \cup {conn[c]}
    /\ Return(c, rec[c], Nil, "ErrPing")
    /\ UNCHANGED <<pc2, destroyed, calls, kind, maxConns, maxIdle, free, lock, held, nextH,
                   misuse>>

\* Get, lines 253-260: after a failed Ping, lock, roll the counter back,
\* unlock, close the candidate, return the error
GetFail(c) ==
    /\ kind = "mutex"
    /\ pc[c] = "g_fail"
    /\ lock = Free
    /\ conns' = IF ~new_conn[c] /\ conns > 0 THEN conns - 1 ELSE conns
    /\ closed' = closed \cup {conn[c]}
    /\ Return(c, rec[c], Nil, "ErrPing")
    /\ UNCHANGED <<pc2, destroyed, calls, kind, maxConns, maxIdle, free, lock, held, nextH,
                   misuse>>

\* Get, lines 262-271: after a successful Ping of a new connection, lock,
\* count it, unlock, return it
GetInc(c) ==
    /\ kind = "mutex"
    /\ pc[c] = "g_inc"
    /\ lock = Free
    /\ conns' = conns + 1
    /\ held' = [held EXCEPT ![c] = @ \cup {conn[c]}]
    /\ Return(c, rec[c], conn[c], NoErr)
    /\ UNCHANGED <<pc2, destroyed, calls, kind, maxConns, maxIdle, free, lock, closed, nextH,
                   misuse>>

\* Mutant of Release: the free list is taken to be full one element late.
Release_OffByOne(c, h) ==
    /\ kind = "mutex"
    /\ Call(c, "Release", h)
    /\ lock = Free
    /\ IF Len(free) > maxIdle
       THEN /\ conns' = conns - 1
            /\ UNCHANGED free
       ELSE /\ free' = Append(free, h)
            /\ UNCHANGED conns
    /\ GiveUp(c, h)
    /\ Return(c, Started(c, "Release", h), Nil, NoErr)
    /\ UNCHANGED <<pc2, destroyed, kind, maxConns, maxIdle, lock, closed, nextH>>

\* Release, lines 274-287
Release(c, h) ==
    /\ kind = "mutex"
    /\ Call(c, "Release", h)
    /\ lock = Free
    /\ IF Len(free) >= maxIdle
       THEN /\ conns' = conns - 1
            /\ UNCHANGED free
       ELSE /\ free' = Append(free, h)
            /\ UNCHANGED conns
    /\ GiveUp(c, h)
    /\ Return(c, Started(c, "Release", h), Nil, NoErr)
    /\ UNCHANGED <<pc2, destroyed, kind, maxConns, maxIdle, lock, closed, nextH>>
\* Mutant of CloseCleanClose: the handle is not closed.
CloseCleanClose_NoClose(c, h) ==
    /\ kind = "mutex"
    /\ Call(c, "CloseClean", h)
    /\ closed' = closed
    /\ conn' = [conn EXCEPT ![c] = h]
    /\ pc' = [pc EXCEPT ![c] = "cc_lock"]
    /\ rec' = [rec EXCEPT ![c] = Started(c, "CloseClean", h)]
    /\ GiveUp(c, h)
    /\ UNCHANGED <<pc2, destroyed, issued, kind, maxConns, maxIdle, conns, free, lock, new_conn, nextH>>

\* CloseClean, lines 290-292: conn.Close() unless conn is nil (no lock held)
CloseCleanClose(c, h) ==
    /\ kind = "mutex"
    /\ Call(c, "CloseClean", h)
    /\ closed' = IF h # Nil THEN closed \cup {h} ELSE closed
    /\ conn' = [conn EXCEPT ![c] = h]
    /\ pc' = [pc EXCEPT ![c] = "cc_lock"]
    /\ rec' = [rec EXCEPT ![c] = Started(c, "CloseClean", h)]
    /\ GiveUp(c, h)
    /\ UNCHANGED <<pc2, destroyed, issued, kind, maxConns, maxIdle, conns, free, lock, new_conn, nextH>>

\* Mutant of CloseClean: the counter is not decremented.
CloseClean_KeepsCount(c) ==
    /\ kind = "mutex"
    /\ pc[c] = "cc_lock"
    /\ lock = Free
    /\ conns' = conns
    /\ Return(c, rec[c], Nil, NoErr)
    /\ UNCHANGED <<pc2, destroyed, calls, kind, maxConns, maxIdle, free, lock, held, closed,
                   nextH, misuse>>

\* CloseClean, lines 293-300
CloseClean(c) ==
    /\ kind = "mutex"
    /\ pc[c] = "cc_lock"
    /\ lock = Free
    /\ conns' = IF conns > 0 THEN conns - 1 ELSE conns
    /\ Return(c, rec[c], Nil, NoErr)
    /\ UNCHANGED <<pc2, destroyed, calls, kind, maxConns, maxIdle, free, lock, held, closed,
                   nextH, misuse>>
\* Mutant of Destroy: every handle ever handed out is closed, held ones too.
Destroy_ClosesIssued(c) ==
    /\ kind = "mutex"
    /\ Call(c, "Destroy", Nil)
    /\ lock = Free
    /\ closed' = closed \cup issued
    /\ Return(c, Started(c, "Destroy", Nil), Nil, NoErr)
    /\ destroyed' = TRUE
    /\ UNCHANGED <<pc2, kind, maxConns, maxIdle, conns, free, lock, held, nextH,
                   misuse>>

\* Destroy, lines 303-314: close every non-nil element of free; p = nil only
\* clears the method's own copy of the pointer
Destroy(c) ==
    /\ kind = "mutex"
    /\ Call(c, "Destroy", Nil)
    /\ lock = Free
    /\ closed' = closed \cup (SeqRange(free) \ {Nil})
    /\ Return(c, Started(c, "Destroy", Nil), Nil, NoErr)
    /\ destroyed' = TRUE
    /\ UNCHANGED <<pc2, kind, maxConns, maxIdle, conns, free, lock, held, nextH,
                   misuse>>

\* ---------------------------------------------------------------------
\* kind = "global": ConnPool under the package lock m (src/conn_pool/pool.go)
\* ---------------------------------------------------------------------
\* Mutant of GlobalGet: the candidate is read from the free list but not removed.
GlobalGet_KeepsHead(c) ==
    /\ kind = "global"
    /\ Call(c, "Get", Nil)
    /\ lock = Free
    /\ IF conns >= maxConns /\ Len(free) = 0
       THEN /\ Return(c, Started(c, "Get", Nil), Nil, ErrMaxConn)
            /\ UNCHANGED <<lock, free>>
       ELSE IF Len(free) > 0
       THEN /\ conn' = [conn EXCEPT ![c] = Head(free)]
            /\ free' = free
            /\ new_conn' = [new_conn EXCEPT ![c] = FALSE]
            /\ pc' = [pc EXCEPT ![c] = "g_ping"]
            /\ rec' = [rec EXCEPT ![c] = Started(c, "Get", Nil)]
            /\ UNCHANGED issued
            /\ lock' = c
       ELSE /\ lock' = c
            /\ pc' = [pc EXCEPT ![c] = "g_new"]
            /\ rec' = [rec EXCEPT ![c] = Started(c, "Get", Nil)]
            /\ UNCHANGED issued
            /\ UNCHANGED <<free, conn, new_conn>>
    /\ UNCHANGED <<pc2, destroyed, kind, maxConns, maxIdle, conns, held, closed, nextH, misuse>>

\* Get, lines 62-82: m.Lock() (released by the deferred Unlock when Get
\* returns), the capacity check, the pop or the call of p.New()
GlobalGet(c) ==
    /\ kind = "global"
    /\ Call(c, "Get", Nil)
    /\ lock = Free
    /\ IF conns >= maxConns /\ Len(free) = 0
       THEN /\ Return(c, Started(c, "Get", Nil), Nil, ErrMaxConn)
            /\ UNCHANGED <<lock, free>>
       ELSE IF Len(free) > 0
       THEN /\ conn' = [conn EXCEPT ![c] = Head(free)]
            /\ free' = Tail(free)
            /\ new_conn' = [new_conn EXCEPT ![c] = FALSE]
            /\ pc' = [pc EXCEPT ![c] = "g_ping"]
            /\ rec' = [rec EXCEPT ![c] = Started(c, "Get", Nil)]
            /\ UNCHANGED issued
            /\ lock' = c
       ELSE /\ lock' = c
            /\ pc' = [pc EXCEPT ![c] = "g_new"]
            /\ rec' = [rec EXCEPT ![c] = Started(c, "Get", Nil)]
            /\ UNCHANGED issued
            /\ UNCHANGED <<free, conn, new_conn>>
    /\ UNCHANGED <<pc2, destroyed, kind, maxConns, maxIdle, conns, held, closed, nextH, misuse>>
\* Mutant of GlobalGetNew: Get returns the Factory's error with the lock still held.
GlobalGetNew_KeepsLock(c) ==
    /\ kind = "global"
    /\ pc[c] = "g_new"
    /\ \E r \in NewOutcomes :
         IF r = NoErr
         THEN /\ conn' = [conn EXCEPT ![c] = nextH]
              /\ nextH' = nextH + 1
              /\ new_conn' = [new_conn EXCEPT ![c] = TRUE]
              /\ pc' = [pc EXCEPT ![c] = "g_ping"]
              /\ rec' = [rec EXCEPT ![c].calledNew = TRUE]
              /\ UNCHANGED issued
              /\ UNCHANGED lock
         ELSE /\ Return(c, [rec[c] EXCEPT !.calledNew = TRUE, !.newErr = r],
                        Nil, r)
              /\ UNCHANGED lock
              /\ UNCHANGED nextH
    /\ UNCHANGED <<pc2, destroyed, calls, kind, maxConns, maxIdle, conns, free, held, closed,
                   misuse>>

\* Get, lines 77-82: p.New() returns
GlobalGetNew(c) ==
    /\ kind = "global"
    /\ pc[c] = "g_new"
    /\ \E r \in NewOutcomes :
         IF r = NoErr
         THEN /\ conn' = [conn EXCEPT ![c] = nextH]
              /\ nextH' = nextH + 1
              /\ new_conn' = [new_conn EXCEPT ![c] = TRUE]
              /\ pc' = [pc EXCEPT ![c] = "g_ping"]
              /\ rec' = [rec EXCEPT ![c].calledNew = TRUE]
              /\ UNCHANGED issued
              /\ UNCHANGED lock
         ELSE /\ Return(c, [rec[c] EXCEPT !.calledNew = TRUE, !.newErr = r],
                        Nil, r)
              /\ lock' = Free
              /\ UNCHANGED nextH
    /\ UNCHANGED <<pc2, destroyed, calls, kind, maxConns, maxIdle, conns, free, held, closed,
                   misuse>>

\* Get, lines 84-99: p.Ping(conn) returns, and Get returns
GlobalGetPing(c) ==
    /\ kind = "global"
    /\ pc[c] = "g_ping"
    /\ \E ok \in BOOLEAN :
         IF ok
         THEN /\ conns' = IF new_conn[c] THEN conns + 1 ELSE conns
              /\ held' = [held EXCEPT ![c] = @ \cup {conn[c]}]
              /\ Return(c, [rec[c] EXCEPT !.calledPing = TRUE,
                                          !.pinged = conn[c]],
                        conn[c], NoErr)
              /\ UNCHANGED closed
         ELSE /\ conns' = IF ~new_conn[c] /\ conns > 0 THEN conns - 1 ELSE conns
              /\ closed' = closed \cup {conn[c]}
              /\ Return(c, [rec[c] EXCEPT !.calledPing = TRUE], Nil, "ErrPing")
              /\ UNCHANGED held
    /\ lock' = Free
    /\ UNCHANGED <<pc2, destroyed, calls, kind, maxConns, maxIdle, free, nextH, misuse>>
\* Mutant of GlobalClose: a handle that fits is put at the head of the free list.
GlobalClose_Prepends(c, h, d) ==
    /\ kind = "global"
    /\ Call(c, "Close", h)
    /\ lock = Free
    /\ IF h # Nil
       THEN /\ d = Nil
            /\ IF Len(free) >= maxIdle
               THEN /\ closed' = closed \cup {h}
                    /\ conns' = conns - 1
                    /\ UNCHANGED free
               ELSE /\ free' = <<h>> \o free
                    /\ UNCHANGED <<conns, closed>>
            /\ GiveUp(c, h)
       ELSE /\ conns' = IF conns > 0 THEN conns - 1 ELSE conns
            /\ closed' = IF d # Nil THEN closed \cup {d} ELSE closed
            /\ GiveUp(c, d)
            /\ UNCHANGED free
    /\ Return(c, Started(c, "Close", h), Nil, NoErr)
    /\ UNCHANGED <<pc2, destroyed, kind, maxConns, maxIdle, lock, nextH>>

\* Close, lines 102-121.  Close(nil) is this pool's discard: it is called
\* for a handle d the caller held and closed itself (d = Nil: for none)
GlobalClose(c, h, d) ==
    /\ kind = "global"
    /\ Call(c, "Close", h)
    /\ lock = Free
    /\ IF h # Nil
       THEN /\ d = Nil
            /\ IF Len(free) >= maxIdle
               THEN /\ closed' = closed \cup {h}
                    /\ conns' = conns - 1
                    /\ UNCHANGED free
               ELSE /\ free' = Append(free, h)
                    /\ UNCHANGED <<conns, closed>>
            /\ GiveUp(c, h)
       ELSE /\ conns' = IF conns > 0 THEN conns - 1 ELSE conns
            /\ closed' = IF d # Nil THEN closed \cup {d} ELSE closed
            /\ GiveUp(c, d)
            /\ UNCHANGED free
    /\ Return(c, Started(c, "Close", h), Nil, NoErr)
    /\ UNCHANGED <<pc2, destroyed, kind, maxConns, maxIdle, lock, nextH>>

\* Destroy, lines 123-134
GlobalDestroy(c) ==
    /\ kind = "global"
    /\ Call(c, "Destroy", Nil)
    /\ lock = Free
    /\ closed' = closed \cup (SeqRange(free) \ {Nil})
    /\ Return(c, Started(c, "Destroy", Nil), Nil, NoErr)
    /\ destroyed' = TRUE
    /\ UNCHANGED <<pc2, kind, maxConns, maxIdle, conns, free, lock, held, nextH,
                   misuse>>

\* ---------------------------------------------------------------------
\* kind = "tcp": TcpConnPool under the package lock m
\* (src/tcp_connpool/pool.go, lines 1-164)
\* ---------------------------------------------------------------------

\* open, lines 120-130: a connection, the error of net.ResolveTCPAddr or the
\* error of net.DialTimeout
OpenOutcomes == {NoErr, "ErrResolve", "ErrDial"}
\* Mutant of TcpGet: the newest element of the free list is taken.
TcpGet_PopsLast(c) ==
    /\ kind = "tcp"
    /\ Call(c, "Get", Nil)
    /\ lock = Free
    /\ IF conns >= maxConns /\ Len(free) = 0
       THEN /\ Return(c, Started(c, "Get", Nil), Nil, ErrMaxConn)
            /\ UNCHANGED <<lock, free>>
       ELSE IF Len(free) > 0
       THEN /\ conn' = [conn EXCEPT ![c] = free[Len(free)]]
            /\ free' = SubSeq(free, 1, Len(free) - 1)
            /\ new_conn' = [new_conn EXCEPT ![c] = FALSE]
            /\ pc' = [pc EXCEPT ![c] = "g_ping"]
            /\ rec' = [rec EXCEPT ![c] = Started(c, "Get", Nil)]
            /\ UNCHANGED issued
            /\ lock' = c
       ELSE /\ lock' = c
            /\ pc' = [pc EXCEPT ![c] = "g_new"]
            /\ rec' = [rec EXCEPT ![c] = Started(c, "Get", Nil)]
            /\ UNCHANGED issued
            /\ UNCHANGED <<free, conn, new_conn>>
    /\ UNCHANGED <<pc2, destroyed, kind, maxConns, maxIdle, conns, held, closed, nextH, misuse>>

\* Get, lines 76-98: m.Lock() (released by the deferred Unlock when Get
\* returns), the capacity check, the pop or the call of n.open()
TcpGet(c) ==
    /\ kind = "tcp"
    /\ Call(c, "Get", Nil)
    /\ lock = Free
    /\ IF conns >= maxConns /\ Len(free) = 0
       THEN /\ Return(c, Started(c, "Get", Nil), Nil, ErrMaxConn)
            /\ UNCHANGED <<lock, free>>
       ELSE IF Len(free) > 0
       THEN /\ conn' = [conn EXCEPT ![c] = Head(free)]
            /\ free' = Tail(free)
            /\ new_conn' = [new_conn EXCEPT ![c] = FALSE]
            /\ pc' = [pc EXCEPT ![c] = "g_ping"]
            /\ rec' = [rec EXCEPT ![c] = Started(c, "Get", Nil)]
            /\ UNCHANGED issued
            /\ lock' = c
       ELSE /\ lock' = c
            /\ pc' = [pc EXCEPT ![c] = "g_new"]
            /\ rec' = [rec EXCEPT ![c] = Started(c, "Get", Nil)]
            /\ UNCHANGED issued
            /\ UNCHANGED <<free, conn, new_conn>>
    /\ UNCHANGED <<pc2, destroyed, kind, maxConns, maxIdle, conns, held, closed, nextH, misuse>>

\* Get, lines 92-98: n.open() returns
TcpGetOpen(c) ==
    /\ kind = "tcp"
    /\ pc[c] = "g_new"
    /\ \E r \in OpenOutcomes :
         IF r = NoErr
         THEN /\ conn' = [conn EXCEPT ![c] = nextH]
              /\ nextH' = nextH + 1
              /\ new_conn' = [new_conn EXCEPT ![c] = TRUE]
              /\ pc' = [pc EXCEPT ![c] = "g_ping"]
              /\ rec' = [rec EXCEPT ![c].calledNew = TRUE]
              /\ UNCHANGED issued
              /\ UNCHANGED lock
         ELSE /\ Return(c, [rec[c] EXCEPT !.calledNew = TRUE, !.newErr = r],
                        Nil, r)
              /\ lock' = Free
              /\ UNCHANGED nextH
    /\ UNCHANGED <<pc2, destroyed, calls, kind, maxConns, maxIdle, conns, free, held, closed,
                   misuse>>

\* Get, lines 100-117: n.ping(conn) returns, and Get returns (the deadlines
\* of lines 100-103 are set on the connection, not on the pool)
TcpGetPing(c) ==
    /\ kind = "tcp"
    /\ pc[c] = "g_ping"
    /\ \E ok \in BOOLEAN :
         IF ok
         THEN /\ conns' = IF new_conn[c] THEN conns + 1 ELSE conns
              /\ held' = [held EXCEPT ![c] = @ \cup {conn[c]}]
              /\ Return(c, [rec[c] EXCEPT !.calledPing = TRUE,
                                          !.pinged = conn[c]],
                        conn[c], NoErr)
              /\ UNCHANGED closed
         ELSE /\ conns' = IF ~new_conn[c] /\ conns > 0 THEN conns - 1 ELSE conns
              /\ closed' = closed \cup {conn[c]}
              /\ Return(c, [rec[c] EXCEPT !.calledPing = TRUE], Nil, "ErrPing")
              /\ UNCHANGED held
    /\ lock' = Free
    /\ UNCHANGED <<pc2, destroyed, calls, kind, maxConns, maxIdle, free, nextH, misuse>>

\* Close, lines 132-151.  Close(nil) is this pool's discard: it is called
\* for a handle d the caller held and closed itself (d = Nil: for none)
TcpClose(c, h, d) ==
    /\ kind = "tcp"
    /\ Call(c, "Close", h)
    /\ lock = Free
    /\ IF h # Nil
       THEN /\ d = Nil
            /\ IF Len(free) >= maxIdle
               THEN /\ closed' = closed \cup {h}
                    /\ conns' = conns - 1
                    /\ UNCHANGED free
               ELSE /\ free' = Append(free, h)
                    /\ UNCHANGED <<conns, closed>>
            /\ GiveUp(c, h)
       ELSE /\ conns' = IF conns > 0 THEN conns - 1 ELSE conns
            /\ closed' = IF d # Nil THEN closed \cup {d} ELSE closed
            /\ GiveUp(c, d)
            /\ UNCHANGED free
    /\ Return(c, Started(c, "Close", h), Nil, NoErr)
    /\ UNCHANGED <<pc2, destroyed, kind, maxConns, maxIdle, lock, nextH>>

\* Destroy, lines 153-164
TcpDestroy(c) ==
    /\ kind = "tcp"
    /\ Call(c, "Destroy", Nil)
    /\ lock = Free
    /\ closed' = closed \cup (SeqRange(free) \ {Nil})
    /\ Return(c, Started(c, "Destroy", Nil), Nil, NoErr)
    /\ destroyed' = TRUE
    /\ UNCHANGED <<pc2, kind, maxConns, maxIdle, conns, free, lock, held, nextH,
                   misuse>>

\* ---------------------------------------------------------------------
\* A second pool instance of the same type, used by one more goroutine.
\* src/conn_pool/pool.go and the TcpConnPool of src/tcp_connpool/pool.go
\* lock the package variable m, which is the lock of every instance, so
\* "lock" stands for it; the ConnPool with the embedded sync.Mutex locks its
\* own Mutex, which this pool's callers never touch.  The second instance is
\* new and its Factory fails, so its counter and free list stay as created.
\* ---------------------------------------------------------------------

\* Get on the second instance: Lock, the capacity check (conns = 0 <
\* MaxConns), the call of New / open under the lock
OtherGet ==
    /\ pc2 = "idle"
    /\ calls < Budget
    /\ calls' = calls + 1
    /\ IF kind = "mutex"
       THEN UNCHANGED lock
       ELSE lock = Free /\ lock' = Other
    /\ pc2' = "g_new"
    /\ UNCHANGED <<destroyed, kind, maxConns, maxIdle, conns, free, pc, conn,
                   new_conn, rec, held, closed, nextH, issued, misuse>>

\* Get on the second instance: New / open returns its error, Unlock, return
OtherGetNew ==
    /\ pc2 = "g_new"
    /\ IF kind = "mutex"
       THEN UNCHANGED lock
       ELSE lock' = Free
    /\ pc2' = "idle"
    /\ UNCHANGED <<destroyed, calls, kind, maxConns, maxIdle, conns, free, pc,
                   conn, new_conn, rec, held, closed, nextH, issued, misuse>>

Next ==
    \/ OtherGet
    \/ OtherGetNew
    \/ \E c \in Callers :
        \/ Get(c)
        \/ GetNew(c)
        \/ GetPing(c)
        \/ GetFail(c)
        \/ GetInc(c)
        \/ \E h \in issued : Release(c, h)
        \/ \E h \in issued \cup {Nil} : CloseCleanClose(c, h)
        \/ CloseClean(c)
        \/ Destroy(c)
        \/ GlobalGet(c)
        \/ GlobalGetNew(c)
        \/ GlobalGetPing(c)
        \/ \E h \in issued \cup {Nil}, d \in held[c] \cup {Nil} :
               GlobalClose(c, h, d)
        \/ GlobalDestroy(c)
        \/ TcpGet(c)
        \/ TcpGetOpen(c)
        \/ TcpGetPing(c)
        \/ \E h \in issued \cup {Nil}, d \in held[c] \cup {Nil} :
               TcpClose(c, h, d)
        \/ TcpDestroy(c)

Spec == Init /\ [][Next]_vars

\* ---------------------------------------------------------------------
\* Fair scheduling: a call that has started goes on.  The Factory and the
\* Validator return, and a goroutine waiting in Lock() gets the lock once it
\* stays free (sync.Mutex hands the lock to waiters).
\* ---------------------------------------------------------------------

\* the steps by which caller c's call in progress goes on
Continue(c) ==
    \/ GetNew(c) \/ GetPing(c) \/ GetFail(c) \/ GetInc(c) \/ CloseClean(c)
    \/ GlobalGetNew(c) \/ GlobalGetPing(c)
    \/ TcpGetOpen(c) \/ TcpGetPing(c)

Fairness ==
    /\ \A c \in Callers : WF_vars(Continue(c))
    /\ WF_vars(OtherGetNew)

FairSpec == Spec /\ Fairness

\* ---------------------------------------------------------------------
\* Vocabulary of the properties
\* ---------------------------------------------------------------------

\* no call is in progress
Quiescent == \A c \in Callers : pc[c] \in {"idle", "off"}

\* caller c starts a call in this step
Starts(c) == rec'[c].tick # rec[c].tick

\* caller c's call returns in this step
Returns(c) == rec'[c].err # Pending /\ (Starts(c) \/ rec[c].err = Pending)

\* caller c starts a Get in this step (and so runs its capacity check)
StartsGet(c) == Starts(c) /\ rec'[c].op = "Get"

\* the handles callers hold
Held == UNION {held[c] : c \in Callers}

\* the candidates of the Get calls in progress
Candidates == {conn[c] : c \in {d \in Callers : pc[d] \in {"g_ping", "g_inc", "g_fail"}}}

\* connections being validated, held by callers or idle in the free list
Live == Candidates \cup Held \cup SeqRange(free)

\* handles that were handed out or released and not discarded or evicted since
Tracked == Held \cup SeqRange(free)

\* handles the counter counts while calls are in progress: the tracked ones,
\* those popped for re-validation, and those CloseClean has yet to uncount
Counted ==
    Tracked
    \cup {conn[c] : c \in {d \in Callers : pc[d] \in {"g_ping", "g_fail"} /\ ~new_conn[d]}}
    \cup {conn[c] : c \in {d \in Callers : pc[d] = "cc_lock"}}

FactoryErrors == {"ErrNew", "ErrResolve", "ErrDial"}

\* a decrement guarded against going below zero
GuardedDec(n) == IF n > 0 THEN n - 1 ELSE n

\* ---------------------------------------------------------------------
\* C1..C10
\* ---------------------------------------------------------------------

\* C1: in every reachable state the counter conns is at most maxConns.
C1_CounterWithinMax == conns <= maxConns

\* C2: for callers that release or discard each acquired handle at most once,
\* the number of live connections (being validated, held by callers, or idle
\* in the free list) never exceeds maxConns.
C2_LiveWithinMax == ~misuse => Cardinality(Live) <= maxConns

\* C3: the counter is never negative, caller misuse included.
C3_CounterNonNegative == conns >= 0

\* C4: in every reachable state the length of the free list is between 0 and
\* maxIdle.
C4_FreeWithinMaxIdle == Len(free) >= 0 /\ Len(free) <= maxIdle

\* C4 witness: two connections were created, none was closed or is held, the
\* free list is full with one of them, and the Release of the other found it
\* full.
C4_Witness ==
    /\ kind = "mutex" /\ maxIdle = 1 /\ Len(free) = 1
    /\ nextH = 3 /\ closed = {} /\ Held = {} /\ Quiescent /\ ~misuse
    /\ \E c \in Callers : rec[c].op = "Release" /\ rec[c].arg \notin SeqRange(free)

C6_ReturnedWasPinged ==
    \A c \in Callers :
        (rec[c].op = "Get" /\ rec[c].err # Pending) =>
            /\ rec[c].conn # Nil => (rec[c].calledPing /\ rec[c].pinged = rec[c].conn)
            /\ rec[c].err = NoErr <=> rec[c].conn # Nil

\* C6 witness: a Get returned a handle it had popped from the free list.
C6_Witness ==
    \E c \in Callers :
        /\ rec[c].op = "Get" /\ rec[c].err = NoErr /\ rec[c].conn # Nil
        /\ ~rec[c].calledNew

\* C7: a Get fails with ErrMaxConn exactly when, at its capacity check, the
\* counter is at least maxConns and the free list is empty; it then returns
\* at once with no handle, calls neither the Factory nor Ping, and leaves the
\* counter and the free list unchanged; otherwise it goes on to reuse the head
\* of the free list or to call the Factory.
C7_ErrMaxConnExactly ==
    [][\A c \in Callers :
         /\ StartsGet(c) =>
              IF conns >= maxConns /\ Len(free) = 0
              THEN /\ Returns(c)
                   /\ rec'[c].err = ErrMaxConn /\ rec'[c].conn = Nil
                   /\ ~rec'[c].calledNew /\ ~rec'[c].calledPing
                   /\ conns' = conns /\ free' = free /\ nextH' = nextH
              ELSE /\ ~Returns(c)
                   /\ IF Len(free) > 0
                      THEN pc'[c] = "g_ping" /\ conn'[c] = Head(free)
                      ELSE pc'[c] = "g_new"
         /\ (Returns(c) /\ rec'[c].err = ErrMaxConn) =>
              (StartsGet(c) /\ conns >= maxConns /\ Len(free) = 0)]_vars

\* C7 witness: a Get returned ErrMaxConn.
C7_Witness ==
    \E c \in Callers : rec[c].op = "Get" /\ rec[c].err = ErrMaxConn

\* C8: when Ping fails on Get's candidate, Get returns Ping's error and no
\* handle, the candidate is closed, the caller does not get it, the free list
\* is not changed, and the counter goes down by one (not below zero) if the
\* candidate was popped from the free list and stays as it is if the
\* candidate was newly created.
C8_PingFailure ==
    [][\A c \in Callers :
         /\ (pc[c] = "g_fail" /\ pc'[c] # "g_fail") =>
              (Returns(c) /\ rec'[c].err = "ErrPing")
         /\ (Returns(c) /\ rec'[c].err = "ErrPing") =>
              /\ rec'[c].op = "Get" /\ rec'[c].calledPing
              /\ rec'[c].conn = Nil /\ rec'[c].pinged = Nil
              /\ conn[c] # Nil /\ conn[c] \in closed'
              /\ held'[c] = held[c]
              /\ free' = free
              /\ conns' = IF new_conn[c] THEN conns ELSE GuardedDec(conns)
              /\ new_conn[c] <=> rec'[c].calledNew]_vars

\* C8 witness: Ping failed on a handle popped from the free list, which is
\* now closed, and the counter went back to zero (Scenario C).
C8_Witness ==
    \E c \in Callers :
        /\ rec[c].op = "Get" /\ rec[c].err = "ErrPing" /\ ~rec[c].calledNew
        /\ conns = 0 /\ free = <<>> /\ closed # {} /\ ~misuse

\* C9: when the free list is empty and the counter is below maxConns, Get
\* calls the Factory; if the Factory fails, Get returns the Factory's error
\* unchanged with no handle, never calls Ping, and leaves the counter and the
\* free list unchanged.
C9_FactoryFailure ==
    [][\A c \in Callers :
         /\ (StartsGet(c) /\ Len(free) = 0 /\ conns < maxConns) =>
              (pc'[c] = "g_new" /\ ~Returns(c))
         /\ (pc[c] = "g_new" /\ Returns(c)) =>
              /\ rec'[c].calledNew
              /\ rec'[c].newErr \in FactoryErrors
              /\ rec'[c].err = rec'[c].newErr
              /\ rec'[c].conn = Nil
              /\ ~rec'[c].calledPing
              /\ conns' = conns /\ free' = free /\ nextH' = nextH
         /\ (Returns(c) /\ rec'[c].err \in FactoryErrors) => pc[c] = "g_new"]_vars

\* C9 witness: a Get returned the Factory's error.
C9_Witness ==
    \E c \in Callers :
        rec[c].op = "Get" /\ rec[c].err \in FactoryErrors /\ rec[c].calledNew

\* C10: when a handle is released while the free list is already at maxIdle,
\* the handle is closed, the counter goes down by one (not below zero) and
\* the free list is unchanged.
C10_EvictionCloses ==
    [][\A c \in Callers :
         (Returns(c) /\ rec'[c].op \in {"Release", "Close"}
            /\ rec'[c].arg # Nil /\ Len(free) >= maxIdle) =>
              /\ rec'[c].arg \in closed'
              /\ conns' = GuardedDec(conns)
              /\ free' = free]_vars

\* ---------------------------------------------------------------------
\* C11..C20
\* ---------------------------------------------------------------------

\* C11: when a handle is released (Release, or Close with a handle) while the
\* free list holds fewer than maxIdle handles, the handle is appended to the
\* tail of the free list, no handle is closed, the counter is unchanged and
\* the call returns no error.
C11_ReleaseAppends ==
    [][\A c \in Callers :
         (Returns(c) /\ rec'[c].op \in {"Release", "Close"}
            /\ rec'[c].arg # Nil /\ Len(free) < maxIdle) =>
              /\ free' = Append(free, rec'[c].arg)
              /\ closed' = closed
              /\ conns' = conns
              /\ rec'[c].err = NoErr /\ rec'[c].conn = Nil]_vars

\* C11 witness: two handles were released one after the other into a free
\* list with room for both; none is closed and both are still counted.
C11_Witness ==
    /\ maxIdle = 2 /\ free = <<1, 2>> /\ closed = {} /\ conns = 2 /\ ~misuse
    /\ \E c \in Callers :
         rec[c].op \in {"Release", "Close"} /\ rec[c].arg = 2 /\ rec[c].err = NoErr

\* C12: CloseClean of a handle closes it when the call starts and, when it
\* returns, takes one off the counter if the counter is positive and leaves
\* it alone otherwise, with the free list unchanged and no error returned; so
\* no CloseClean, a repeated one for the same handle included, takes the
\* counter from zero or above to below zero.
C12_DiscardGuarded ==
    [][\A c \in Callers :
         /\ (Starts(c) /\ rec'[c].op = "CloseClean" /\ rec'[c].arg # Nil) =>
              (rec'[c].arg \in closed' /\ conns' = conns /\ free' = free)
         /\ (Returns(c) /\ rec'[c].op = "CloseClean") =>
              /\ rec'[c].arg # Nil => rec'[c].arg \in closed'
              /\ conns' = GuardedDec(conns)
              /\ conns >= 0 => conns' >= 0
              /\ free' = free
              /\ rec'[c].err = NoErr]_vars

\* C12 witness: the only connection was discarded twice, by two callers; it
\* is closed and the counter is zero.
C12_Witness ==
    \E c, d \in Callers :
        /\ c # d /\ nextH = 2 /\ conns = 0 /\ closed = {1} /\ free = <<>>
        /\ rec[c].op = "CloseClean" /\ rec[c].arg = 1 /\ rec[c].err = NoErr
        /\ rec[d].op = "CloseClean" /\ rec[d].arg = 1 /\ rec[d].err = NoErr

\* C13: a discard of a handle the pool no longer tracks (no caller held it
\* and the free list did not have it when the call started), or of no handle
\* (CloseClean(nil), or Close(nil) by a caller who gives up no handle), leaves
\* the counter as it was.
C13_UntrackedDiscardNoOp ==
    [][\A c \in Callers :
         (/\ Returns(c)
          /\ \/ /\ rec'[c].op = "CloseClean"
                /\ (rec'[c].arg = Nil \/ ~rec'[c].tracked)
             \/ /\ rec'[c].op = "Close" /\ rec'[c].arg = Nil
                /\ held'[c] = held[c])
         => conns' = conns]_vars

\* C14: Destroy closes every handle that is in the free list when it is
\* called and closes nothing else; with callers that pass only handles they
\* hold, no handle held by a caller or under validation in a Get is closed
\* by it.
C14_DestroyClosesFreeOnly ==
    [][\A c \in Callers :
         (Returns(c) /\ rec'[c].op = "Destroy") =>
              /\ SeqRange(free) \subseteq closed'
              /\ (closed' \ closed) \subseteq SeqRange(free)
              /\ ~misuse => (closed' \ closed) \cap (Held \cup Candidates) = {}]_vars

\* C14 witness: Destroy ran with handle 1 in the free list and handle 2
\* checked out; 1 is closed, 2 is not.
C14_Witness ==
    /\ free = <<1>> /\ closed = {1} /\ Held = {2} /\ ~misuse
    /\ \E c \in Callers : rec[c].op = "Destroy" /\ rec[c].err = NoErr

\* C15: once Destroy has returned the pool is unusable: the handles Destroy
\* closed are not left in the free list, and a Get that starts after Destroy
\* has returned does not return a handle.
C15_DestroyedUnusable ==
    [][\A c \in Callers :
         /\ (Returns(c) /\ rec'[c].op = "Destroy") =>
              \A h \in SeqRange(free) : h \notin SeqRange(free')
         /\ (Returns(c) /\ rec'[c].op = "Get" /\ rec'[c].late) =>
              rec'[c].conn = Nil]_vars

\* C16: while a caller's Get is inside the Factory (New / open) or the
\* Validator (Ping), that Get does not hold the pool's lock, so the other
\* callers' bookkeeping does not wait for the Factory or the Validator.
C16_NoLockAcrossCalls ==
    \A c \in Callers : pc[c] \in {"g_new", "g_ping"} => lock # c

\* C17: the lock that guards this pool's counter and free list belongs to
\* this pool instance alone: it is never held by an operation that is in
\* progress on another pool instance, so this pool's callers never wait for
\* one.
C17_LockPerInstance == lock # Other

\* C18: the free list is first in, first out.  A Get that finds the free list
\* non-empty takes its head as the candidate, leaves the rest in order and
\* does not call the Factory, in that step or later in the call; and the free
\* list changes only by a Release (or Close) appending its handle at the tail
\* or by a Get removing the head, so handles leave it in the order in which
\* they were released and every handle a Get pops was put there by a Release.
C18_FreeListFifo ==
    [][/\ \A c \in Callers :
            /\ (StartsGet(c) /\ Len(free) > 0) =>
                 /\ conn'[c] = Head(free) /\ free' = Tail(free)
                 /\ pc'[c] = "g_ping" /\ ~new_conn'[c]
                 /\ ~rec'[c].calledNew /\ nextH' = nextH
            /\ (Returns(c) /\ rec'[c].op = "Get"
                  /\ pc[c] \in {"g_ping", "g_fail"} /\ ~new_conn[c]) =>
                 (~rec'[c].calledNew /\ nextH' = nextH)
       /\ free' # free =>
            \/ \E c \in Callers :
                 /\ Returns(c) /\ rec'[c].op \in {"Release", "Close"}
                 /\ rec'[c].arg # Nil /\ free' = Append(free, rec'[c].arg)
            \/ \E c \in Callers :
                 /\ StartsGet(c) /\ Len(free) > 0
                 /\ free' = Tail(free) /\ conn'[c] = Head(free)]_vars

\* C18 witness: handles 1 and 2 were released in this order by a caller
\* working alone; its next Get has taken 1, the older one, and left 2.
C18_Witness ==
    /\ \A c \in Callers \ {1} : pc[c] = "off"
    /\ pc[1] = "g_ping" /\ ~new_conn[1] /\ conn[1] = 1 /\ free = <<2>>
    /\ ~misuse /\ closed = {}

\* C19: as long as every call has passed a handle its caller held (so each
\* acquired handle is released or discarded at most once), no handle is held
\* by two callers, no handle is both in the free list and held by a caller
\* or under validation in a Get, and no handle is in the free list twice.
C19_ExclusiveOwnership ==
    ~misuse =>
        /\ \A c, d \in Callers : c # d => held[c] \cap held[d] = {}
        /\ SeqRange(free) \cap (Held \cup Candidates) = {}
        /\ Cardinality(SeqRange(free)) = Len(free)

\* C19 witness: caller 1 released handle 1, and caller 2 got it from the
\* free list and holds it now.
C19_Witness ==
    /\ ~misuse /\ held[2] = {1} /\ held[1] = {} /\ free = <<>>
    /\ rec[1].op \in {"Release", "Close"} /\ rec[1].arg = 1
    /\ rec[2].op = "Get" /\ rec[2].conn = 1 /\ ~rec[2].calledNew

\* C20: a caller that is not inside a call does not hold the pool's lock, so
\* every Get, Release, Close, CloseClean and Destroy has released it when it
\* returns, on every return path; when no call is in progress on any pool the
\* lock is free; and under fair scheduling, with Factory and Validator calls
\* that return, every call that has started returns (each caller is again
\* and again outside a call).
C20_CallsComplete ==
    /\ [](\A c \in Callers : pc[c] \in {"idle", "off"} => lock # c)
    /\ []((Quiescent /\ pc2 = "idle") => lock = Free)
    /\ \A c \in Callers : []<>(pc[c] \in {"idle", "off"})

\* C20 witness: one caller's Get has returned the Validator's error and
\* another's the Factory's error; no call is in progress and the lock is free.
C20_Witness ==
    /\ Quiescent /\ pc2 = "idle" /\ lock = Free
    /\ \E c, d \in Callers :
         /\ rec[c].op = "Get" /\ rec[c].err = "ErrPing"
         /\ rec[d].op = "Get" /\ rec[d].err \in FactoryErrors
====
